---- MODULE Spec2Model ----
(***************************************************************************)
(* State-machine model of the four command-line tools of the repository:   *)
(*   drone_websocket_simulator.py     (tool = "telemetry")                 *)
(*   drone_binary_image_simulator.py  (tool = "binary")                    *)
(*   resize_images.py                 (tool = "resize")                    *)
(*   mp4_to_frames.py                 (tool = "extract")                   *)
(* One behaviour is one run of one tool: Init draws the tool and its       *)
(* command line, the actions are the steps of that tool's main().          *)
(*                                                                         *)
(* Coroutine positions (pc) of the two simulators are the places where the *)
(* coroutine is suspended in an await, plus the synchronous stretch        *)
(* between a completed send and the counter update.                        *)
(*                                                                         *)
(* Environment: the server may close the connection at any moment, and     *)
(* what a bounded wait receives is one of RecvKinds: nothing within the    *)
(* timeout, a JSON object of type connected / ack / error, or text that is *)
(* not JSON.  A SIGINT either raises KeyboardInterrupt inside the          *)
(* coroutine (it was executing) or, when the coroutine is suspended in an  *)
(* await, reaches it as a task cancellation, which no except clause of the *)
(* sources catches; the process then dies of the KeyboardInterrupt that    *)
(* asyncio.run re-raises (exit status ExitSigint).                         *)
(***************************************************************************)
EXTENDS Integers, Sequences, FiniteSets, TLC

\* ---------------------------------------------------------------- bounds
MaxDrones  == 2     \* largest --num-drones drawn
MaxUpdates == 2     \* largest --updates drawn
MaxFrames  == 1     \* cap on frames sent by a continuous (updates = None) run
MaxFiles   == 2     \* largest number of image files in a directory
MaxVideoFrames == 3 \* largest frame count of a video
MaxDim     == 4     \* largest width and height of an image file
AngleDen   == 10    \* angles are in units of 1/AngleDen radian

\* ------------------------------------------------------------- constants
NoneVal    == -1    \* Python None in an Optional[int] slot
NoExit     == -1    \* the process has not exited yet
NoReport   == -1    \* "Total frames sent" has not been printed
ExitSigint == 130   \* death by the KeyboardInterrupt re-raised by asyncio.run

VARIABLES
    tool,               \* which of the four programs this run is
    args,               \* the parsed command line (argparse.Namespace)
    uniformDraws,       \* what random.uniform(a, b) returns in this run:
                        \*   "lower" (always a) or "any" (any value drawn)
    pc,                 \* position of main() / of the coroutine
    exitCode,           \* value handed to sys.exit, NoExit while running
    conn,               \* "none" | "open" | "closed" (closed by the server)
    connectAttempts,    \* number of websockets.connect calls made
    sent,               \* payloads whose ws.send completed, in order
    lastRecv,           \* outcome of the bounded wait just made, else "none"
    reported,           \* the printed "Total frames sent", or NoReport
    interrupted,        \* a SIGINT was delivered
    connLost,           \* ConnectionClosed was raised in the program
    states,             \* telemetry: the list of DroneState
    frame_id,           \* telemetry: frame_id
    updates_remaining,  \* both simulators: updates_remaining (NoneVal = None)
    image_files,        \* binary sender: image_files, sorted by name
    image_index,        \* binary sender: image_index (0-based)
    frame_count,        \* binary sender: frame_count
    resizer,            \* image resizer: image_files (sorted), loop position,
                        \*   success_count, the files attempted, the files
                        \*   resized, and the last output written
    extractor,          \* frame extractor: the state of its run
    probe               \* one evaluation of position_on_circle: its arguments
                        \*   and the values returned (NoProbe in a tool's run)

vars == <<tool, args, uniformDraws, pc, exitCode, conn, connectAttempts, sent, lastRecv,
          reported, interrupted, connLost, states, frame_id,
          updates_remaining, image_files, image_index, frame_count,
          resizer, extractor, probe>>

\* The run's configuration, which no action changes.
cfg == <<tool, args, uniformDraws, probe>>
\* What the telemetry simulator never touches.
notTele == <<image_files, image_index, frame_count, resizer, extractor>>
\* What the binary-frame sender never touches.
notBin == <<states, frame_id, resizer, extractor>>
\* The state of the two simulators, which the file tools never touch.
simVars == <<conn, connectAttempts, sent, lastRecv, reported, interrupted,
             connLost, states, frame_id, updates_remaining, image_files,
             image_index, frame_count>>

\* ------------------------------------------------ the server, as seen by recv
\* What a bounded wait on an open connection can yield.
RecvMessages == {"connected", "ack", "error", "text"}
RecvKinds    == RecvMessages \cup {"timeout"}

\* Outcomes of `await asyncio.wait_for(ws.recv(), timeout)`: a connection the
\* server closed yields the messages still buffered and then ConnectionClosed;
\* an open one yields a message or the timeout.
RecvOutcomes(c) == IF c = "closed" THEN RecvMessages \cup {"closed"} ELSE RecvKinds

\* Mutant of RecvHandler: an "error" message from the server ends the run
\* the way a closed connection does.
RecvHandler_ErrorAborts(r) ==
    IF r \in {"timeout", "text", "connected", "ack"} THEN "continue"
    ELSE "ConnectionClosed"

\* What the try/except around a bounded wait does with an outcome:
\* "continue" (fall through to the statement after the try) or the exception
\* that leaves it.  TimeoutError and JSONDecodeError are caught and passed,
\* a JSON object is at most printed, ConnectionClosed is not caught there.
RecvHandler(r) ==
    CASE r = "timeout"   -> "continue"
      [] r = "text"      -> "continue"
      [] r = "connected" -> "continue"
      [] r = "ack"       -> "continue"
      [] r = "error"     -> "continue"
      [] r = "closed"    -> "ConnectionClosed"

\* =====================================================================
\* drone_websocket_simulator.py
\* =====================================================================

\* Command lines drawn for the telemetry simulator.  Numbers stand for the
\* floats of the source; rates are in percent (100 = 1.0).  The scene center
\* is (0, 0) degrees and the GPS jitter is switched off (--noise-level-m 0).
TeleArgs ==
    [ center_lat          : {0},
      center_lon          : {0},
      noise_level_m       : {0},
      interval_s          : {0, 1},
      radius_m            : {0, 1},
      num_drones          : 0..MaxDrones,
      speed_range_kt      : {<<0, 1>>, <<2, 1>>, <<1, 2>>},
      miss_rate           : {-1, 0, 50, 100},
      false_positive_rate : {-1, 0, 50, 100},
      updates             : -1..MaxUpdates,
      show_responses      : BOOLEAN ]

\* validate_args of the telemetry simulator.
validate_args(a) ==
    IF a.interval_s <= 0 THEN FALSE
    ELSE IF a.radius_m <= 0 THEN FALSE
    ELSE IF a.num_drones < 1 THEN FALSE
    ELSE IF a.speed_range_kt[1] <= 0 \/ a.speed_range_kt[1] > a.speed_range_kt[2] THEN FALSE
    ELSE IF ~(0 <= a.miss_rate /\ a.miss_rate < 100) THEN FALSE
    ELSE IF ~(0 <= a.false_positive_rate /\ a.false_positive_rate < 100) THEN FALSE
    ELSE TRUE

\* updates_remaining = args.updates if args.updates > 0 else None
InitialUpdates(a) == IF a.updates > 0 THEN a.updates ELSE NoneVal

\* `if updates_remaining: updates_remaining -= 1` (None and 0 are falsy).
DecUpdates(u) == IF u # NoneVal /\ u # 0 THEN u - 1 ELSE u

\* Mutant of LoopCondition: the test is `> 1`, so the last update is never made.
LoopCondition_StopsEarly(u) == u = NoneVal \/ u > 1

\* `while updates_remaining is None or updates_remaining > 0`
LoopCondition(u) == u = NoneVal \/ u > 0

\* 2 * math.pi, to the nearest angle unit (pi taken as 355/113).
TwoPi == (710 * AngleDen + 56) \div 113

\* Python's round(n / d) for n >= 0, d > 0: to the nearest integer, a tie
\* going to the even one.
RoundDiv(n, d) ==
    LET q == n \div d
        r == n % d
    IN  IF 2 * r < d THEN q
        ELSE IF 2 * r > d THEN q + 1
        ELSE IF q % 2 = 0 THEN q ELSE q + 1

\* METERS_PER_DEGREE_LAT
METERS_PER_DEGREE_LAT == 111320

\* Sines and cosines are kept in thousandths.
SinDen == 1000

\* Half a turn (pi taken as 355/113) and a full turn, in tenths of the angle
\* unit: the resolution at which the sine is evaluated.  A full turn is not
\* a whole number of angle units, as 2 * math.pi is not exactly two pi.
HalfTurnFine == (3550 * AngleDen + 56) \div 113
FullTurnFine == 2 * HalfTurnFine

\* math.sin of an angle t >= 0 given in tenths of the angle unit
\* (Bhaskara's rational approximation on each half turn), in 1/SinDen.
SinFine(t) ==
    LET p == t % FullTurnFine
        u == IF p < HalfTurnFine THEN p ELSE p - HalfTurnFine
        h == (SinDen * 16 * u * (HalfTurnFine - u))
               \div (5 * HalfTurnFine * HalfTurnFine - 4 * u * (HalfTurnFine - u))
    IN  IF p < HalfTurnFine THEN h ELSE 0 - h

\* math.sin and math.cos of an angle given in angle units.
Sin(x) == SinFine(10 * x)
Cos(x) == SinFine(10 * x + HalfTurnFine \div 2)

\* abs(math.cos(math.radians(latitude_deg))) in thousandths, for the
\* latitudes drawn.
CosLat(latitude_deg) ==
    CASE latitude_deg = 0  -> 1000
      [] latitude_deg = 15 -> 966

\* meters_per_degree_lon
meters_per_degree_lon(latitude_deg) ==
    (METERS_PER_DEGREE_LAT * CosLat(latitude_deg)) \div 1000

\* position_on_circle: (lat, lon) in units of 1 / (METERS_PER_DEGREE_LAT *
\* SinDen) degree, the center being given in whole degrees.
position_on_circle(center_lat, center_lon, radius_m, angle_rad) ==
    LET delta_lat == radius_m * Sin(angle_rad)
        delta_lon == (radius_m * Cos(angle_rad) * METERS_PER_DEGREE_LAT)
                       \div meters_per_degree_lon(center_lat)
    IN  << center_lat * METERS_PER_DEGREE_LAT * SinDen + delta_lat,
           center_lon * METERS_PER_DEGREE_LAT * SinDen + delta_lon >>

\* The values drawn for random.uniform(a, b), given the values S it can take.
Uniform(S) ==
    IF uniformDraws = "lower" THEN { CHOOSE x \in S : \A y \in S : x <= y } ELSE S

\* random.uniform(speed_min, speed_max): the base speed of a track, in units
\* of KNOTS_TO_MPS m/s (the ends of the range are drawn).
SpeedDraws(a) == Uniform({a.speed_range_kt[1], a.speed_range_kt[2]})

\* random.uniform(args.radius_m * 0.7, args.radius_m * 1.3): the orbit radius
\* of a circle track, in tenths of the unit of --radius-m.
RadiusDraws(a) == Uniform({7 * a.radius_m, 10 * a.radius_m, 13 * a.radius_m})

\* random.uniform(0.0, 2 * math.pi): the start angle of a circle track.
AngleDraws == Uniform({0, TwoPi \div 2, TwoPi - 1})

\* random.uniform(0.9, 1.1): the per-frame speed factor, in tenths.
NoiseDraws == Uniform({9, 10, 11})

\* random.uniform(0.0, args.radius_m * 0.25): the distance of the start
\* position from the center, in tenths of the unit of --radius-m.
StartRadiusDraws(a) == Uniform({0, 2 * a.radius_m})

\* (start_lat, start_lon): the center moved by start_r in the direction
\* start_theta, in the units of position_on_circle.
StartPositions(a) ==
    { << a.center_lat * METERS_PER_DEGREE_LAT * SinDen + start_r * Sin(start_theta),
         a.center_lon * METERS_PER_DEGREE_LAT * SinDen
           + (start_r * Cos(start_theta) * METERS_PER_DEGREE_LAT)
                \div meters_per_degree_lon(a.center_lat) >> :
        start_r \in StartRadiusDraws(a), start_theta \in AngleDraws }

\* What init_frames_states can draw for one track.
TrackDraws(a) ==
    { [ motion |-> "circle", angle_rad |-> an, bearing_rad |-> 0,
        radius_m |-> r, speed_base_mps |-> sp, lat |-> p[1], lon |-> p[2] ] :
        an \in AngleDraws, r \in RadiusDraws(a), sp \in SpeedDraws(a),
        p \in StartPositions(a) }
    \cup
    { [ motion |-> "straight", angle_rad |-> 0, bearing_rad |-> b,
        radius_m |-> 10 * a.radius_m, speed_base_mps |-> sp,
        lat |-> p[1], lon |-> p[2] ] :
        b \in AngleDraws, sp \in SpeedDraws(a), p \in StartPositions(a) }

\* The DroneState appended for track i.
MakeState(i, d) ==
    [ drone_id |-> <<"sim", i>>, motion |-> d.motion, angle_rad |-> d.angle_rad,
      bearing_rad |-> d.bearing_rad, radius_m |-> d.radius_m,
      speed_base_mps |-> d.speed_base_mps, lat |-> d.lat, lon |-> d.lon ]

\* Mutant of InitFramesStates: one track more than --num-drones is created.
InitFramesStates_ExtraTrack(a) ==
    { [i \in 1..(a.num_drones + 1) |-> MakeState(i, d[i])] :
        d \in [1..(a.num_drones + 1) -> TrackDraws(a)] }

\* init_frames_states: the lists of DroneState it can return, one track per
\* index 1..num_drones, drone_id "sim-<i>", motion and kinematics drawn per
\* track.
InitFramesStates(a) ==
    { [i \in 1..a.num_drones |-> MakeState(i, d[i])] :
        d \in [1..a.num_drones -> TrackDraws(a)] }

\* The angle a circle track turns in one tick:
\* (current_speed_mps / st.radius_m) * dt, with current_speed_mps the base
\* speed times the factor drawn (tenths over tenths), in angle units.
AngleStep(st, noise, dt) ==
    (st.speed_base_mps * noise * dt * AngleDen) \div st.radius_m

\* The whole degree nearest to a latitude given in position units.
DegreesOf(lat) ==
    (2 * lat + METERS_PER_DEGREE_LAT * SinDen)
       \div (2 * METERS_PER_DEGREE_LAT * SinDen)

\* The else branch of "update position": a straight track moves its stored
\* position by current_speed_mps * dt along its bearing; the longitude step
\* is scaled at the latitude just stored.
AdvanceStraight(st, noise, dt) ==
    LET dist    == st.speed_base_mps * noise * dt
        new_lat == st.lat + dist * Cos(st.bearing_rad)
        new_lon == st.lon + (dist * Sin(st.bearing_rad) * METERS_PER_DEGREE_LAT)
                               \div meters_per_degree_lon(DegreesOf(new_lat))
    IN  [st EXCEPT !.lat = new_lat, !.lon = new_lon]

\* Mutant of AdvanceTrack: the new angle is not reduced modulo a full turn.
AdvanceTrack_NoModulo(st, noise, dt) ==
    IF st.motion = "circle"
      THEN [st EXCEPT !.angle_rad = @ + AngleStep(st, noise, dt)]
      ELSE AdvanceStraight(st, noise, dt)

\* "update position" for one track: a circle track advances its angle modulo
\* 2 * math.pi; a straight track advances its stored position.
AdvanceTrack(st, noise, dt) ==
    IF st.motion = "circle"
      THEN [st EXCEPT !.angle_rad = (@ + AngleStep(st, noise, dt)) % TwoPi]
      ELSE AdvanceStraight(st, noise, dt)

\* round(x, 7) of a coordinate: from position units to units of 1e-7 degree.
RoundCoord(x) ==
    LET n == x * (10000000 \div SinDen)
    IN  IF n >= 0 THEN RoundDiv(n, METERS_PER_DEGREE_LAT)
        ELSE 0 - RoundDiv(0 - n, METERS_PER_DEGREE_LAT)

\* The (lat, lng) put into the object of a track: the point of its orbit at
\* the angle just stored, or the position just stored, rounded to 7 places.
ReportedPosition(st) ==
    LET p == IF st.motion = "circle"
               THEN position_on_circle(args.center_lat, args.center_lon,
                                       st.radius_m, st.angle_rad)
               ELSE <<st.lat, st.lon>>
    IN  << RoundCoord(p[1]), RoundCoord(p[2]) >>

\* Mutant of Draw: the comparison is `<=`, so a rate of 0 can still fire.
Draw_Inclusive(rate) == IF rate >= 0 THEN {TRUE, FALSE} ELSE {FALSE}

\* random.random() < rate, for a rate in percent: possible outcomes.
Draw(rate) == IF rate > 0 THEN {TRUE, FALSE} ELSE {FALSE}

\* The `for st in states` loop: miss[i] says whether track i is dropped this
\* frame; a track that is not dropped appends one object, in track order.
RECURSIVE TrackObjects(_, _, _)
TrackObjects(sts, miss, i) ==
    IF i > Len(sts) THEN <<>>
    ELSE (IF miss[i] THEN <<>>
          ELSE << [ obj_id |-> sts[i].drone_id,
                    lat    |-> ReportedPosition(sts[i])[1],
                    lng    |-> ReportedPosition(sts[i])[2] ] >>)
         \o TrackObjects(sts, miss, i + 1)

\* Mutant of FalsePositive: the block appends its object twice.
FalsePositive_Twice(fp) ==
    IF fp THEN <<[obj_id |-> <<"fp", 0>>], [obj_id |-> <<"fp", 0>>]>> ELSE <<>>

\* The false-positive block after the loop: at most one extra object.
FalsePositive(fp) == IF fp THEN <<[obj_id |-> <<"fp", 0>>]>> ELSE <<>>

\* str(n) for an int n >= 0: its decimal digits, most significant first.
RECURSIVE Str(_)
Str(n) ==
    LET digit == <<"0", "1", "2", "3", "4", "5", "6", "7", "8", "9">>[(n % 10) + 1]
    IN  IF n < 10 THEN <<digit>> ELSE Append(Str(n \div 10), digit)

\* The payload of one frame.
FramePayload(fid, sts, miss, fp) ==
    [ kind    |-> "frame",
      fram_id |-> Str(fid),
      objects |-> TrackObjects(sts, miss, 1) \o FalsePositive(fp) ]

\* Mutant of TeleReportAndReturn: the handler prints the total and goes back
\* to connect again.
TeleReportAndReconnect ==
    /\ reported' = frame_id
    /\ exitCode' = exitCode
    /\ pc' = "connect"

\* The `except` clauses of frames_loop: KeyboardInterrupt and ConnectionClosed
\* print the total and fall through to `return 0`.
TeleReportAndReturn ==
    /\ reported' = frame_id
    /\ exitCode' = 0
    /\ pc' = "done"

\* main: validate_args, then asyncio.run(main_async(args)).
TeleMain ==
    /\ tool = "telemetry" /\ pc = "start"
    /\ IF validate_args(args)
         THEN pc' = "connect" /\ exitCode' = exitCode
         ELSE pc' = "done" /\ exitCode' = 2
    /\ UNCHANGED <<cfg, conn, connectAttempts, sent, lastRecv, reported,
                   interrupted, connLost, states, frame_id, updates_remaining, notTele>>

\* main_async: websockets.connect; on success frames_loop starts and runs to
\* its first await (the welcome wait); OSError / InvalidURI return 1.
TeleConnect ==
    /\ tool = "telemetry" /\ pc = "connect"
    /\ connectAttempts' = connectAttempts + 1
    /\ \/ /\ conn' = "open"
          /\ states' \in InitFramesStates(args)
          /\ frame_id' = 0
          /\ updates_remaining' = InitialUpdates(args)
          /\ pc' = "welcome"
          /\ exitCode' = exitCode
       \/ /\ conn' = "none"
          /\ pc' = "done"
          /\ exitCode' = 1
          /\ UNCHANGED <<states, frame_id, updates_remaining>>
    /\ UNCHANGED <<cfg, sent, lastRecv, reported, interrupted, connLost, notTele>>

\* The welcome wait of frames_loop (inside its try).
TeleWelcome ==
    /\ tool = "telemetry" /\ pc = "welcome"
    /\ \E r \in RecvOutcomes(conn) :
          /\ lastRecv' = r
          /\ IF RecvHandler(r) = "continue"
               THEN pc' = "loop" /\ UNCHANGED <<reported, exitCode, connLost>>
               ELSE connLost' = TRUE /\ TeleReportAndReturn
    /\ UNCHANGED <<cfg, conn, connectAttempts, sent, interrupted,
                   states, frame_id, updates_remaining, notTele>>

\* Mutant of TeleTick: a track dropped from the frame is not advanced.
TeleTick_MissFreezesTrack ==
    /\ tool = "telemetry" /\ pc = "loop"
    /\ updates_remaining = NoneVal => frame_id < MaxFrames
    /\ IF LoopCondition(updates_remaining)
         THEN \E miss \in [1..Len(states) -> Draw(args.miss_rate)],
                 fp \in Draw(args.false_positive_rate),
                 noise \in [1..Len(states) -> NoiseDraws] :
                /\ states' = [i \in 1..Len(states) |->
                                IF miss[i] THEN states[i]
                                ELSE AdvanceTrack(states[i], noise[i], args.interval_s)]
                /\ IF conn = "open"
                     THEN /\ sent' = Append(sent, FramePayload(frame_id, states', miss, fp))
                          /\ pc' = IF args.show_responses THEN "ack" ELSE "count"
                          /\ UNCHANGED <<reported, exitCode, connLost>>
                     ELSE /\ connLost' = TRUE
                          /\ TeleReportAndReturn
                          /\ sent' = sent
         ELSE /\ pc' = "done" /\ exitCode' = 0
              /\ UNCHANGED <<sent, reported, connLost, states>>
    /\ lastRecv' = "none"
    /\ UNCHANGED <<cfg, conn, connectAttempts, interrupted,
                   frame_id, updates_remaining, notTele>>

\* One pass of the while loop up to the end of `await ws.send(payload_json)`:
\* the loop test, the frame built from every track, the send.
TeleTick ==
    /\ tool = "telemetry" /\ pc = "loop"
    /\ updates_remaining = NoneVal => frame_id < MaxFrames
    /\ IF LoopCondition(updates_remaining)
         THEN \E miss \in [1..Len(states) -> Draw(args.miss_rate)],
                 fp \in Draw(args.false_positive_rate),
                 noise \in [1..Len(states) -> NoiseDraws] :
                /\ states' = [i \in 1..Len(states) |->
                                AdvanceTrack(states[i], noise[i], args.interval_s)]
                /\ IF conn = "open"
                     THEN /\ sent' = Append(sent, FramePayload(frame_id, states', miss, fp))
                          /\ pc' = IF args.show_responses THEN "ack" ELSE "count"
                          /\ UNCHANGED <<reported, exitCode, connLost>>
                     ELSE /\ connLost' = TRUE
                          /\ TeleReportAndReturn
                          /\ sent' = sent
         ELSE /\ pc' = "done" /\ exitCode' = 0
              /\ UNCHANGED <<sent, reported, connLost, states>>
    /\ lastRecv' = "none"
    /\ UNCHANGED <<cfg, conn, connectAttempts, interrupted,
                   frame_id, updates_remaining, notTele>>

\* The per-frame wait for a response, made only with --show-responses.
TeleAck ==
    /\ tool = "telemetry" /\ pc = "ack"
    /\ \E r \in RecvOutcomes(conn) :
          /\ lastRecv' = r
          /\ IF RecvHandler(r) = "continue"
               THEN pc' = "count" /\ UNCHANGED <<reported, exitCode, connLost>>
               ELSE connLost' = TRUE /\ TeleReportAndReturn
    /\ UNCHANGED <<cfg, conn, connectAttempts, sent, interrupted,
                   states, frame_id, updates_remaining, notTele>>

\* Mutant of TeleCount: the counter is advanced by two.
TeleCount_SkipsId ==
    /\ tool = "telemetry" /\ pc = "count"
    /\ frame_id' = frame_id + 2
    /\ updates_remaining' = DecUpdates(updates_remaining)
    /\ pc' = "sleep"
    /\ lastRecv' = "none"
    /\ UNCHANGED <<cfg, exitCode, conn, connectAttempts, sent, reported, interrupted, connLost, states, notTele>>

\* frame_id += 1; updates_remaining -= 1; then the coroutine enters the sleep.
TeleCount ==
    /\ tool = "telemetry" /\ pc = "count"
    /\ frame_id' = frame_id + 1
    /\ updates_remaining' = DecUpdates(updates_remaining)
    /\ pc' = "sleep"
    /\ lastRecv' = "none"
    /\ UNCHANGED <<cfg, exitCode, conn, connectAttempts, sent, reported, interrupted, connLost, states, notTele>>

\* await asyncio.sleep(dt) returns.
TeleSleep ==
    /\ tool = "telemetry" /\ pc = "sleep"
    /\ pc' = "loop"
    /\ lastRecv' = "none"
    /\ UNCHANGED <<cfg, exitCode, conn, connectAttempts, sent, reported, interrupted, connLost, states, frame_id,
                   updates_remaining, notTele>>

\* SIGINT while the coroutine executes the synchronous part of the loop body:
\* KeyboardInterrupt is raised inside the try and caught by frames_loop.
TeleKeyboardInterrupt ==
    /\ tool = "telemetry" /\ pc \in {"loop", "count"}
    /\ interrupted' = TRUE
    /\ TeleReportAndReturn
    /\ UNCHANGED <<cfg, conn, connectAttempts, sent, lastRecv, connLost,
                   states, frame_id, updates_remaining, notTele>>

\* =====================================================================
\* drone_binary_image_simulator.py
\* =====================================================================

\* All orderings of the elements of a finite set, as sequences.
RECURSIVE Orderings(_)
Orderings(S) ==
    IF S = {} THEN {<<>>}
    ELSE UNION { { <<x>> \o p : p \in Orderings(S \ {x}) } : x \in S }

\* Directories drawn for --frames-dir.  An entry of the listing is a file
\* name: k > 0 stands for an image file whose name sorts k-th, 0 for a file
\* whose suffix is not an image suffix.  `unreadable` holds the image files
\* whose open() fails.  The listing is in iterdir() order, which is arbitrary.
FrameDirs ==
    { [exists |-> FALSE, listing |-> <<>>, unreadable |-> {}] }
    \cup
    { [exists |-> TRUE, listing |-> other \o p, unreadable |-> u] :
        other \in {<<>>, <<0>>},
        p \in UNION { Orderings(1..n) : n \in 0..MaxFiles },
        u \in {{}} \cup { {k} : k \in 1..MaxFiles } }

\* Command lines drawn for the binary-frame sender.
BinArgs ==
    { a \in [ interval_s         : {0, 1},
              updates            : -1..MaxUpdates,
              loop               : BOOLEAN,
              send_metadata_json : BOOLEAN,
              frames_dir         : FrameDirs ] :
        a.frames_dir.unreadable \subseteq { a.frames_dir.listing[i] :
                                            i \in 1..Len(a.frames_dir.listing) } }

\* `f.is_file() and f.suffix in image_extensions`
IsImage(f) == f > 0

\* `sort(key=lambda x: x.name)`
NameLess(f, g) == f < g

\* Mutant of get_image_files: the list is returned in iterdir() order.
get_image_files_Unsorted(dir) == SelectSeq(dir.listing, IsImage)

\* get_image_files on an existing directory: filter by suffix, sort by name.
get_image_files(dir) == SortSeq(SelectSeq(dir.listing, IsImage), NameLess)

\* The range checks at the head of main() of the binary-frame sender.
BinArgsValid(a) ==
    IF a.interval_s <= 0 THEN FALSE
    ELSE IF a.updates < 0 THEN FALSE
    ELSE TRUE

\* An exception that leaves send_binary_images outside its try, or that no
\* except clause names: it leaves main_async (which catches only OSError and
\* InvalidURI) and asyncio.run, and the interpreter exits with status 1.
BinUncaught ==
    /\ exitCode' = 1
    /\ pc' = "done"

\* The `except` clauses of send_binary_images: KeyboardInterrupt and
\* ConnectionClosed print the total and fall through to `return 0`.
BinReportAndReturn ==
    /\ reported' = frame_count
    /\ exitCode' = 0
    /\ pc' = "done"

\* Lines 139-142: the counters set up before the send loop.
BinEnterLoop ==
    /\ frame_count' = 0
    /\ updates_remaining' = InitialUpdates(args)
    /\ image_index' = 0
    /\ pc' = "loop"

\* main: the range checks, then asyncio.run(main_async(args)).
BinMain ==
    /\ tool = "binary" /\ pc = "start"
    /\ IF BinArgsValid(args)
         THEN pc' = "connect" /\ exitCode' = exitCode
         ELSE pc' = "done" /\ exitCode' = 2
    /\ UNCHANGED <<cfg, conn, connectAttempts, sent, lastRecv, reported,
                   interrupted, connLost, notBin, updates_remaining,
                   image_files, image_index, frame_count>>

\* main_async: websockets.connect; on success send_binary_images starts,
\* lists the directory and runs to its first await (the welcome wait).
BinConnect ==
    /\ tool = "binary" /\ pc = "connect"
    /\ connectAttempts' = connectAttempts + 1
    /\ \/ /\ conn' = "open"
          /\ IF args.frames_dir.exists /\ get_image_files(args.frames_dir) # <<>>
               THEN /\ image_files' = get_image_files(args.frames_dir)
                    /\ pc' = "welcome"
                    /\ exitCode' = exitCode
               ELSE /\ image_files' = image_files
                    /\ pc' = "done"
                    /\ exitCode' = 1
       \/ /\ conn' = "none"
          /\ pc' = "done"
          /\ exitCode' = 1
          /\ image_files' = image_files
    /\ UNCHANGED <<cfg, sent, lastRecv, reported, interrupted, connLost,
                   notBin, updates_remaining, image_index, frame_count>>

\* The welcome wait (outside the try of the send loop).
BinWelcome ==
    /\ tool = "binary" /\ pc = "welcome"
    /\ \E r \in RecvOutcomes(conn) :
          /\ lastRecv' = r
          /\ IF RecvHandler(r) = "continue"
               THEN /\ IF args.send_metadata_json
                         THEN /\ pc' = "meta"
                              /\ UNCHANGED <<frame_count, updates_remaining, image_index>>
                         ELSE BinEnterLoop
                    /\ UNCHANGED <<exitCode, connLost>>
               ELSE /\ connLost' = TRUE
                    /\ BinUncaught
                    /\ UNCHANGED <<frame_count, updates_remaining, image_index>>
    /\ UNCHANGED <<cfg, conn, connectAttempts, sent, reported, interrupted,
                   notBin, image_files>>

\* Mutant of BinMeta: the metadata message goes out twice.
BinMeta_Twice ==
    /\ tool = "binary" /\ pc = "meta"
    /\ sent' = sent \o << [kind |-> "metadata"], [kind |-> "metadata"] >>
    /\ pc' = "metaack"
    /\ lastRecv' = "none"
    /\ UNCHANGED <<cfg, conn, connectAttempts, reported, exitCode, connLost,
                   interrupted, notBin, updates_remaining,
                   image_files, image_index, frame_count>>

\* `await ws.send(json.dumps(metadata))`, with --send-metadata-json.
BinMeta ==
    /\ tool = "binary" /\ pc = "meta"
    /\ IF conn = "open"
         THEN /\ sent' = Append(sent, [kind |-> "metadata"])
              /\ pc' = "metaack"
              /\ UNCHANGED <<exitCode, connLost>>
         ELSE /\ connLost' = TRUE
              /\ BinUncaught
              /\ sent' = sent
    /\ lastRecv' = "none"
    /\ UNCHANGED <<cfg, conn, connectAttempts, reported,
                   interrupted, notBin, updates_remaining,
                   image_files, image_index, frame_count>>

\* The wait for the metadata acknowledgment (outside the try).
BinMetaAck ==
    /\ tool = "binary" /\ pc = "metaack"
    /\ \E r \in RecvOutcomes(conn) :
          /\ lastRecv' = r
          /\ IF RecvHandler(r) = "continue"
               THEN BinEnterLoop /\ UNCHANGED <<exitCode, connLost>>
               ELSE /\ connLost' = TRUE
                    /\ BinUncaught
                    /\ UNCHANGED <<frame_count, updates_remaining, image_index>>
    /\ UNCHANGED <<cfg, conn, connectAttempts, sent, reported, interrupted,
                   notBin, image_files>>

\* image_index after the `if image_index >= len(image_files)` block.
WrapIndex(idx, n) == IF idx >= n THEN 0 ELSE idx

\* Mutant of BinTick: a file whose open() fails is sent like any other.
BinTick_SendsUnreadable ==
    /\ tool = "binary" /\ pc = "loop"
    /\ (updates_remaining = NoneVal /\ args.loop) => frame_count < MaxFrames
    /\ IF ~LoopCondition(updates_remaining)
            \/ (image_index >= Len(image_files) /\ ~args.loop)
         THEN /\ pc' = "done" /\ exitCode' = 0
              /\ UNCHANGED <<sent, reported, connLost, image_index>>
         ELSE LET idx  == WrapIndex(image_index, Len(image_files))
                  file == image_files[idx + 1]
              IN  IF FALSE
                    THEN /\ image_index' = idx + 1
                         /\ UNCHANGED <<pc, sent, reported, exitCode, connLost>>
                    ELSE /\ image_index' = idx
                         /\ IF conn = "open"
                              THEN /\ sent' = Append(sent, [kind |-> "image", file |-> file])
                                   /\ pc' = "sent"
                                   /\ UNCHANGED <<reported, exitCode, connLost>>
                              ELSE /\ connLost' = TRUE
                                   /\ BinReportAndReturn
                                   /\ sent' = sent
    /\ lastRecv' = "none"
    /\ UNCHANGED <<cfg, conn, connectAttempts, interrupted,
                   notBin, updates_remaining, image_files, frame_count>>

\* One pass of the while loop up to the end of `await ws.send(image_data)`:
\* the loop test, the wrap-around or break, the read of the file, the send.
BinTick ==
    /\ tool = "binary" /\ pc = "loop"
    /\ (updates_remaining = NoneVal /\ args.loop) => frame_count < MaxFrames
    /\ IF ~LoopCondition(updates_remaining)
            \/ (image_index >= Len(image_files) /\ ~args.loop)
         THEN /\ pc' = "done" /\ exitCode' = 0
              /\ UNCHANGED <<sent, reported, connLost, image_index>>
         ELSE LET idx  == WrapIndex(image_index, Len(image_files))
                  file == image_files[idx + 1]
              IN  IF file \in args.frames_dir.unreadable
                    THEN /\ image_index' = idx + 1
                         /\ UNCHANGED <<pc, sent, reported, exitCode, connLost>>
                    ELSE /\ image_index' = idx
                         /\ IF conn = "open"
                              THEN /\ sent' = Append(sent, [kind |-> "image", file |-> file])
                                   /\ pc' = "sent"
                                   /\ UNCHANGED <<reported, exitCode, connLost>>
                              ELSE /\ connLost' = TRUE
                                   /\ BinReportAndReturn
                                   /\ sent' = sent
    /\ lastRecv' = "none"
    /\ UNCHANGED <<cfg, conn, connectAttempts, interrupted,
                   notBin, updates_remaining, image_files, frame_count>>

\* frame_count += 1; image_index += 1; then the coroutine enters the wait
\* for the acknowledgment.
BinCount ==
    /\ tool = "binary" /\ pc = "sent"
    /\ frame_count' = frame_count + 1
    /\ image_index' = image_index + 1
    /\ pc' = "ack"
    /\ lastRecv' = "none"
    /\ UNCHANGED <<cfg, exitCode, conn, connectAttempts, sent, reported, interrupted, connLost, notBin, updates_remaining, image_files>>

\* The per-frame wait for an acknowledgment (inside the try).
BinAck ==
    /\ tool = "binary" /\ pc = "ack"
    /\ \E r \in RecvOutcomes(conn) :
          /\ lastRecv' = r
          /\ IF RecvHandler(r) = "continue"
               THEN pc' = "dec" /\ UNCHANGED <<reported, exitCode, connLost>>
               ELSE connLost' = TRUE /\ BinReportAndReturn
    /\ UNCHANGED <<cfg, conn, connectAttempts, sent, interrupted,
                   notBin, updates_remaining, image_files,
                   image_index, frame_count>>

\* updates_remaining -= 1, then the sleep unless the budget is used up.
BinDec ==
    /\ tool = "binary" /\ pc = "dec"
    /\ updates_remaining' = DecUpdates(updates_remaining)
    /\ pc' = IF LoopCondition(updates_remaining') THEN "sleep" ELSE "loop"
    /\ lastRecv' = "none"
    /\ UNCHANGED <<cfg, exitCode, conn, connectAttempts, sent, reported, interrupted, connLost, notBin, image_files, image_index, frame_count>>

\* await asyncio.sleep(args.interval_s) returns.
BinSleep ==
    /\ tool = "binary" /\ pc = "sleep"
    /\ pc' = "loop"
    /\ lastRecv' = "none"
    /\ UNCHANGED <<cfg, exitCode, conn, connectAttempts, sent, reported, interrupted, connLost, notBin, updates_remaining, image_files, image_index, frame_count>>

\* SIGINT while the coroutine executes the synchronous part of the loop body:
\* KeyboardInterrupt is raised inside the try and caught there.
BinKeyboardInterrupt ==
    /\ tool = "binary" /\ pc \in {"loop", "sent", "dec"}
    /\ interrupted' = TRUE
    /\ BinReportAndReturn
    /\ UNCHANGED <<cfg, conn, connectAttempts, sent, lastRecv, connLost,
                   notBin, updates_remaining, image_files,
                   image_index, frame_count>>

\* =====================================================================
\* Environment of the two simulators
\* =====================================================================

\* Positions where the coroutine is suspended in an await, and the
\* synchronous stretch of the binary-frame sender that no try covers.
AwaitPcs == {"connect", "welcome", "metaack", "ack", "sleep", "meta"}

\* The server closes the connection; the program learns of it at its next
\* send or recv.
ServerClose ==
    /\ tool \in {"telemetry", "binary"}
    /\ conn = "open" /\ pc # "done"
    /\ conn' = "closed"
    /\ UNCHANGED <<cfg, pc, exitCode, connectAttempts, sent, lastRecv,
                   reported, interrupted, connLost, notBin, updates_remaining, image_files, image_index, frame_count>>

\* SIGINT while the coroutine is suspended: the task is cancelled, the
\* CancelledError passes every except clause of the sources, and the
\* KeyboardInterrupt re-raised by asyncio.run ends the process.
SigintCancel ==
    /\ tool \in {"telemetry", "binary"}
    /\ pc \in AwaitPcs
    /\ interrupted' = TRUE
    /\ exitCode' = ExitSigint
    /\ pc' = "done"
    /\ UNCHANGED <<cfg, conn, connectAttempts, sent, lastRecv, reported,
                   connLost, notBin, updates_remaining, image_files,
                   image_index, frame_count>>

\* =====================================================================
\* resize_images.py
\* =====================================================================

\* An optional argument is <<>> (absent, Python None) or <<v>>.
\* Python truthiness of an optional number: None and 0 are falsy.
Truthy(opt) == opt # <<>> /\ opt[1] # 0

\* Directories drawn for the resizer's input_dir: as FrameDirs, with
\* `failing` the image files on which resize_image returns False.
ResizeDirs ==
    { [exists |-> FALSE, listing |-> <<>>, failing |-> {}] }
    \cup
    { [exists |-> TRUE, listing |-> other \o p, failing |-> u] :
        other \in {<<>>, <<0>>},
        p \in UNION { Orderings(1..n) : n \in 0..MaxFiles },
        u \in SUBSET (1..MaxFiles) }

\* Command lines drawn for the resizer.
ResizeArgs ==
    { a \in [ input_dir : ResizeDirs,
              width     : {<<>>, <<-1>>, <<0>>, <<2>>},
              height    : {<<>>, <<0>>, <<2>>},
              size      : {<<>>, <<2, 0>>, <<2, 3>>} ] :
        a.input_dir.failing \subseteq { a.input_dir.listing[i] :
                                        i \in 1..Len(a.input_dir.listing) } }

\* parse_args: --width, --height and --size form a mutually exclusive group;
\* argparse itself ends the process (status 2) when two of them are given.
ResizeParseOk(a) ==
    Cardinality({ k \in {"width", "height", "size"} : a[k] # <<>> }) <= 1

\* validate_args of the resizer.
ResizeValidateArgs(a) ==
    IF ~a.input_dir.exists THEN FALSE
    ELSE IF ~(Truthy(a.width) \/ Truthy(a.height) \/ a.size # <<>>) THEN FALSE
    ELSE IF Truthy(a.width) /\ a.width[1] <= 0 THEN FALSE
    ELSE IF Truthy(a.height) /\ a.height[1] <= 0 THEN FALSE
    ELSE IF a.size # <<>> /\ (a.size[1] <= 0 \/ a.size[2] <= 0) THEN FALSE
    ELSE TRUE

\* The sizes (width, height) Image.open can report for an image file.
ImageSizes == (1..MaxDim) \X (1..MaxDim)

\* int(dim * (target / base)), for positive integers: the float product is
\* truncated.  Over the sizes drawn here the float result is the exact
\* quotient's floor (it is not for all sizes: int(7 * (61 / 7)) is 60).
ScaleDim(dim, target, base) == (dim * target) \div base

\* Mutant of NewSize: an explicit size is fitted into the original's aspect
\* ratio by its width.
NewSize_KeepsAspect(a, orig) ==
    IF a.size # <<>>
      THEN <<a.size[1], ScaleDim(orig[2], a.size[1], orig[1])>>
    ELSE IF Truthy(a.width)
      THEN <<a.width[1], ScaleDim(orig[2], a.width[1], orig[1])>>
    ELSE IF Truthy(a.height)
      THEN <<ScaleDim(orig[1], a.height[1], orig[2]), a.height[1]>>
    ELSE <<>>

\* resize_image, "Determine target size": new_size for an image of size
\* orig; <<>> stands for the `return False` of the final else.
NewSize(a, orig) ==
    IF a.size # <<>>
      THEN a.size
    ELSE IF Truthy(a.width)
      THEN <<a.width[1], ScaleDim(orig[2], a.width[1], orig[1])>>
    ELSE IF Truthy(a.height)
      THEN <<ScaleDim(orig[1], a.height[1], orig[2]), a.height[1]>>
    ELSE <<>>

\* resize_image returns True: the file opens and decodes, and Pillow can
\* make and save an image of the new size (it raises on an empty one).
ResizeSucceeds(f, new) ==
    /\ f \notin args.input_dir.failing
    /\ new # <<>>
    /\ new[1] > 0 /\ new[2] > 0

\* Mutant of CountSuccess: the counter is incremented for every file.
CountSuccess_Always(count, ok) == count + 1

\* `if resize_image(...): ... success_count += 1`
CountSuccess(count, ok) == IF ok THEN count + 1 ELSE count

\* `return 0 if success_count > 0 else 1` at the end of the resizer's main.
ResizeExitCode(success_count) == IF success_count > 0 THEN 0 ELSE 1

\* main: parse_args and validate_args.
ResizeMain ==
    /\ tool = "resize" /\ pc = "start"
    /\ IF ~ResizeParseOk(args) THEN pc' = "done" /\ exitCode' = 2
       ELSE IF ~ResizeValidateArgs(args) THEN pc' = "done" /\ exitCode' = 1
       ELSE pc' = "scan" /\ exitCode' = exitCode
    /\ UNCHANGED <<cfg, simVars, resizer, extractor>>

\* resize_images_in_directory up to its loop: the image files of the
\* directory; none found returns 0, which main turns into status 1.
ResizeScan ==
    /\ tool = "resize" /\ pc = "scan"
    /\ LET files == SelectSeq(args.input_dir.listing, IsImage)
       IN  IF files = <<>>
             THEN /\ pc' = "done" /\ exitCode' = ResizeExitCode(0)
                  /\ resizer' = resizer
             ELSE /\ pc' = "files" /\ exitCode' = exitCode
                  /\ resizer' = [resizer EXCEPT !.files = SortSeq(files, NameLess)]
    /\ UNCHANGED <<cfg, simVars, extractor>>

\* One iteration of `for i, img_file in enumerate(sorted(image_files), 1)`:
\* resize_image is called once; success_count counts its True results.
ResizeFile ==
    /\ tool = "resize" /\ pc = "files"
    /\ resizer.index <= Len(resizer.files)
    /\ \E orig \in ImageSizes :
         LET f   == resizer.files[resizer.index]
             new == NewSize(args, orig)
             ok  == ResizeSucceeds(f, new)
         IN  resizer' = [resizer EXCEPT
                           !.index = @ + 1,
                           !.attempted = Append(@, f),
                           !.success_count = CountSuccess(@, ok),
                           !.resized = IF ok THEN @ \cup {f} ELSE @,
                           !.last = IF ok THEN [file |-> f, orig |-> orig, new |-> new]
                                    ELSE @]
    /\ UNCHANGED <<cfg, pc, exitCode, simVars, extractor>>

\* The loop is over: the summary, `return success_count`, and main's exit code.
ResizeFinish ==
    /\ tool = "resize" /\ pc = "files"
    /\ resizer.index > Len(resizer.files)
    /\ pc' = "done"
    /\ exitCode' = ResizeExitCode(resizer.success_count)
    /\ UNCHANGED <<cfg, simVars, resizer, extractor>>

\* =====================================================================
\* mp4_to_frames.py
\* =====================================================================

\* Times are in units of 1/TimeDen second.
TimeDen == 2

\* int(t * fps) for a time t >= 0 given in 1/TimeDen seconds.
FrameOfTime(t, fps) == (t * fps) \div TimeDen

Min(a, b) == IF a < b THEN a ELSE b
Max(a, b) == IF a > b THEN a ELSE b

\* Videos drawn: whether the file exists and opens, its FPS and frame count,
\* and `decodable`: cap.read() succeeds for the frames of index < decodable.
Videos ==
    { v \in [ exists       : BOOLEAN,
              opens        : BOOLEAN,
              fps          : {1, 2},
              total_frames : 1..MaxVideoFrames,
              decodable    : 0..MaxVideoFrames ] :
        /\ v.decodable <= v.total_frames
        /\ (~v.exists => ~v.opens)
        /\ (~v.opens => v.fps = 1 /\ v.total_frames = 1 /\ v.decodable = 0) }

\* Command lines drawn for the frame extractor.
ExtractArgs ==
    [ video      : Videos,
      start_time : {-1, 0, 2},
      end_time   : {<<>>, <<0>>, <<2>>, <<3>>},
      interval   : {<<>>, <<-1>>, <<0>>, <<1>>, <<2>>},
      max_frames : {<<>>, <<-1>>, <<0>>, <<1>>} ]

\* validate_args of the frame extractor.
ExtractValidateArgs(a) ==
    IF ~a.video.exists THEN FALSE
    ELSE IF a.start_time < 0 THEN FALSE
    ELSE IF Truthy(a.end_time) /\ a.end_time[1] <= a.start_time THEN FALSE
    ELSE IF Truthy(a.interval) /\ a.interval[1] <= 0 THEN FALSE
    ELSE IF Truthy(a.max_frames) /\ a.max_frames[1] <= 0 THEN FALSE
    ELSE TRUE

\* start_frame, after the clamp.
StartFrame(a) ==
    LET raw == IF a.start_time > 0 THEN FrameOfTime(a.start_time, a.video.fps) ELSE 0
    IN  Max(0, Min(raw, a.video.total_frames - 1))

\* end_frame, after the clamp.
EndFrame(a) ==
    LET raw == IF Truthy(a.end_time) THEN FrameOfTime(a.end_time[1], a.video.fps)
               ELSE a.video.total_frames
    IN  Max(StartFrame(a) + 1, Min(raw, a.video.total_frames))

\* Mutant of FrameStep: the interval is taken as a number of frames, the
\* video's FPS is ignored.
FrameStep_IgnoresFps(a) ==
    IF Truthy(a.interval) THEN Max(1, a.interval[1] \div TimeDen) ELSE 1

\* frame_step
FrameStep(a) ==
    IF Truthy(a.interval) THEN Max(1, FrameOfTime(a.interval[1], a.video.fps)) ELSE 1

\* `return 0 if saved_count > 0 else 1` at the end of the extractor's main.
ExtractExitCode(saved_count) == IF saved_count > 0 THEN 0 ELSE 1

\* main: validate_args.
ExtractMain ==
    /\ tool = "extract" /\ pc = "start"
    /\ IF ExtractValidateArgs(args)
         THEN pc' = "open" /\ exitCode' = exitCode
         ELSE pc' = "done" /\ exitCode' = 1
    /\ UNCHANGED <<cfg, simVars, resizer, extractor>>

\* extract_frames up to its loop: the video is opened (a failure returns 0)
\* and the counters start at the start frame.
ExtractOpen ==
    /\ tool = "extract" /\ pc = "open"
    /\ IF ~args.video.opens
         THEN /\ pc' = "done" /\ exitCode' = ExtractExitCode(0)
              /\ extractor' = extractor
         ELSE /\ pc' = "read" /\ exitCode' = exitCode
              /\ extractor' = [extractor EXCEPT !.current_frame = StartFrame(args)]
    /\ UNCHANGED <<cfg, simVars, resizer>>

\* Mutant of MaxFramesReached: the limit is tested with `>`.
MaxFramesReached_Late(a, saved) == Truthy(a.max_frames) /\ saved > a.max_frames[1]

\* `if max_frames and saved_count >= max_frames: break`
MaxFramesReached(a, saved) == Truthy(a.max_frames) /\ saved >= a.max_frames[1]

\* Mutant of ExtractReturn: a run cut short returns 0 frames saved.
ExtractReturn_ReportsZero ==
    /\ pc' = "done"
    /\ exitCode' = ExtractExitCode(0)

\* The loop is left: by its test, by a failed cap.read(), or by the
\* max-frames break; extract_frames returns saved_count.
ExtractReturn ==
    /\ pc' = "done"
    /\ exitCode' = ExtractExitCode(extractor'.saved_count)

\* One iteration of `while current_frame < end_frame`.
ExtractRead ==
    /\ tool = "extract" /\ pc = "read"
    /\ IF ~(extractor.current_frame < EndFrame(args))
            \/ ~(extractor.current_frame < args.video.decodable)
         THEN extractor' = extractor /\ ExtractReturn
         ELSE IF extractor.frame_count % FrameStep(args) = 0
           THEN /\ extractor' = [extractor EXCEPT
                      !.written = Append(@, extractor.current_frame),
                      !.saved_count = @ + 1,
                      !.frame_count =
                          IF MaxFramesReached(args, extractor.saved_count + 1)
                            THEN @ ELSE @ + 1,
                      !.current_frame =
                          IF MaxFramesReached(args, extractor.saved_count + 1)
                            THEN @ ELSE @ + 1]
                /\ IF MaxFramesReached(args, extractor.saved_count + 1)
                     THEN ExtractReturn
                     ELSE UNCHANGED <<pc, exitCode>>
           ELSE /\ extractor' = [extractor EXCEPT !.frame_count = @ + 1,
                                                  !.current_frame = @ + 1]
                /\ UNCHANGED <<pc, exitCode>>
    /\ UNCHANGED <<cfg, simVars, resizer>>

\* =====================================================================
\* The run
\* =====================================================================

\* Command lines of the telemetry simulator explored with every value of
\* the random.uniform draws: accepted, one track, no misses or false
\* positives, a fixed number of updates.
KinArgs ==
    { a \in TeleArgs : /\ validate_args(a)
                       /\ a.num_drones = 1
                       /\ a.miss_rate = 0 /\ a.false_positive_rate = 0
                       /\ a.updates >= 1
                       /\ ~a.show_responses }

\* No evaluation is being made.
NoProbe == [center_lat |-> 0, center_lon |-> 0, radius_m |-> 0, angle_rad |-> 0,
            at |-> <<>>, turned |-> <<>>]

\* The state in which main() of a tool is entered.
ProgramStart ==
    /\ tool \in {"telemetry", "binary", "resize", "extract"}
    /\ uniformDraws \in {"lower", "any"}
    /\ args \in CASE tool = "telemetry" -> TeleArgs
                  [] tool = "binary"    -> BinArgs
                  [] tool = "resize"    -> ResizeArgs
                  [] tool = "extract"   -> ExtractArgs
    /\ uniformDraws = "any" => (tool = "telemetry" /\ args \in KinArgs)
    /\ pc = "start"
    /\ exitCode = NoExit
    /\ conn = "none"
    /\ connectAttempts = 0
    /\ sent = <<>>
    /\ lastRecv = "none"
    /\ reported = NoReport
    /\ interrupted = FALSE
    /\ connLost = FALSE
    /\ states = <<>>
    /\ frame_id = 0
    /\ updates_remaining = NoneVal
    /\ image_files = <<>>
    /\ image_index = 0
    /\ frame_count = 0
    /\ resizer = [files |-> <<>>, index |-> 1, success_count |-> 0,
                  attempted |-> <<>>, resized |-> {},
                  last |-> [file |-> 0, orig |-> <<>>, new |-> <<>>]]
    /\ extractor = [current_frame |-> 0, frame_count |-> 0, saved_count |-> 0,
                    written |-> <<>>]

Init == ProgramStart /\ probe = NoProbe

\* =====================================================================
\* position_on_circle on its own
\* =====================================================================

\* The arguments drawn for position_on_circle.
ProbeInputs ==
    [ center_lat : {0, 15}, center_lon : {0, 10}, radius_m : {7, 10, 13},
      angle_rad : 0..(TwoPi - 1), at : {<<>>}, turned : {<<>>} ]

\* position_on_circle is called at the angle drawn and at that angle plus
\* 2 * math.pi.
PositionOnCircleApply ==
    /\ probe # NoProbe /\ probe.at = <<>>
    /\ probe' = [probe EXCEPT
                   !.at = position_on_circle(probe.center_lat, probe.center_lon,
                                             probe.radius_m, probe.angle_rad),
                   !.turned = position_on_circle(probe.center_lat, probe.center_lon,
                                                 probe.radius_m,
                                                 probe.angle_rad + TwoPi)]
    /\ UNCHANGED <<tool, args, uniformDraws, pc, exitCode, simVars, resizer, extractor>>

CircleInit ==
    /\ ProgramStart /\ uniformDraws = "any" /\ args.updates = 1
    /\ probe \in ProbeInputs

CircleSpec == CircleInit /\ [][PositionOnCircleApply]_vars

Next ==
    \/ TeleMain \/ TeleConnect \/ TeleWelcome \/ TeleTick \/ TeleAck
    \/ TeleCount \/ TeleSleep \/ TeleKeyboardInterrupt
    \/ BinMain \/ BinConnect \/ BinWelcome \/ BinMeta \/ BinMetaAck \/ BinTick
    \/ BinCount \/ BinAck \/ BinDec \/ BinSleep \/ BinKeyboardInterrupt
    \/ ServerClose \/ SigintCancel
    \/ ResizeMain \/ ResizeScan \/ ResizeFile \/ ResizeFinish
    \/ ExtractMain \/ ExtractOpen \/ ExtractRead

Spec == Init /\ [][Next]_vars

\* The steps the programs take by themselves; the event loop keeps running
\* the coroutine, and every await of the sources is bounded (a timeout, a
\* sleep) or answered by the transport.
TeleStep ==
    \/ TeleMain \/ TeleConnect \/ TeleWelcome \/ TeleTick \/ TeleAck
    \/ TeleCount \/ TeleSleep
BinStep ==
    \/ BinMain \/ BinConnect \/ BinWelcome \/ BinMeta \/ BinMetaAck \/ BinTick
    \/ BinCount \/ BinAck \/ BinDec \/ BinSleep
FileToolStep ==
    \/ ResizeMain \/ ResizeScan \/ ResizeFile \/ ResizeFinish
    \/ ExtractMain \/ ExtractOpen \/ ExtractRead

\* The run with a program that keeps taking its steps; the server and the
\* user are under no obligation.
FairSpec ==
    Spec /\ WF_vars(TeleStep) /\ WF_vars(BinStep) /\ WF_vars(FileToolStep)

\* =====================================================================
\* Properties
\* =====================================================================

\* The frame payloads (telemetry frames, binary images) among the payloads sent.
IsFramePayload(m) == m.kind \in {"frame", "image"}
FramesSent == Len(SelectSeq(sent, IsFramePayload))

\* A run of the telemetry simulator with accepted arguments and --updates N > 0.
TeleUpdatesRun == tool = "telemetry" /\ validate_args(args) /\ args.updates > 0

\* frames_loop returned with no SIGINT delivered and no ConnectionClosed raised.
TeleCleanReturn ==
    /\ tool = "telemetry" /\ pc = "done" /\ conn # "none"
    /\ ~interrupted /\ ~connLost

\* C1: with --updates N > 0 the telemetry simulator never sends more than N
\* frames; when frames_loop returns without interruption or connection loss it
\* has sent exactly N and returns 0; and frames_loop, once started, terminates.
C1_ExactlyNFrames ==
    /\ [](TeleUpdatesRun => Len(sent) <= args.updates)
    /\ [](TeleUpdatesRun /\ TeleCleanReturn
            => Len(sent) = args.updates /\ exitCode = 0)
    /\ ((TeleUpdatesRun /\ conn # "none") ~> (pc = "done"))

\* C1 witness: an undisturbed run with N >= 2 has returned after N frames.
C1_Witness ==
    /\ TeleUpdatesRun /\ TeleCleanReturn
    /\ args.updates >= 2 /\ Len(sent) = args.updates

\* The number of objects of a frame that carry the identifier id.
CountId(objs, id) == Cardinality({ i \in 1..Len(objs) : objs[i].obj_id = id })

\* C2: every telemetry frame sent holds between 0 and num-drones + 1 objects:
\* at most one object per track and at most one false positive.
C2_ObjectCountBounded ==
    tool = "telemetry" =>
        \A k \in 1..Len(sent) :
            /\ Len(sent[k].objects) >= 0
            /\ Len(sent[k].objects) <= args.num_drones + 1
            /\ \A i \in 1..args.num_drones :
                   CountId(sent[k].objects, <<"sim", i>>) <= 1
            /\ CountId(sent[k].objects, <<"fp", 0>>) <= 1

\* C2 witness: a frame with every track and a false positive, and an empty
\* frame, were both sent by a run with two drones or more.
C2_Witness ==
    /\ tool = "telemetry" /\ args.num_drones >= 2
    /\ \E k \in 1..Len(sent) : Len(sent[k].objects) = args.num_drones + 1
    /\ \E k \in 1..Len(sent) : Len(sent[k].objects) = 0

\* The identifiers of a list that names every track once, in track order.
AllTracks(n) == [i \in 1..n |-> <<"sim", i>>]

\* C3: with miss-rate 0 and false-positive-rate 0 every frame sent lists
\* exactly the num-drones tracks sim-1 .. sim-n in track order, and a run with
\* --updates N that returns undisturbed has sent exactly N such frames.
C3_NoNoiseFrames ==
    (tool = "telemetry" /\ validate_args(args)
       /\ args.miss_rate = 0 /\ args.false_positive_rate = 0)
    => /\ \A k \in 1..Len(sent) :
            [j \in 1..Len(sent[k].objects) |-> sent[k].objects[j].obj_id]
               = AllTracks(args.num_drones)
       /\ (args.updates > 0 => Len(sent) <= args.updates)
       /\ (args.updates > 0 /\ TeleCleanReturn => Len(sent) = args.updates)

\* C3 witness: --num-drones 2 --updates 2 with both rates 0 has returned
\* undisturbed.
C3_Witness ==
    /\ TeleUpdatesRun /\ TeleCleanReturn
    /\ args.miss_rate = 0 /\ args.false_positive_rate = 0
    /\ args.num_drones = 2 /\ args.updates = 2 /\ Len(sent) = 2

\* C4 (as claimed): whenever "Total frames sent" is printed (the loop was
\* ended by ConnectionClosed or KeyboardInterrupt), the number printed is the
\* number of frame payloads whose send completed.
C4_ReportedEqualsSent ==
    (tool \in {"telemetry", "binary"} /\ args.updates >= 0
       /\ reported # NoReport)
    => reported = FramesSent

\* The connection could not be opened.
ConnectFailed == connectAttempts >= 1 /\ conn = "none"

\* C5: a simulator makes at most one connection attempt, and once the
\* connection is reported closed or has failed to open, nothing more is sent
\* and no further attempt is made.
C5_NoReconnectNoResend ==
    [][ /\ tool \in {"telemetry", "binary"} => connectAttempts' <= 1
        /\ (tool \in {"telemetry", "binary"} /\ (connLost \/ ConnectFailed))
             => (sent' = sent /\ connectAttempts' = connectAttempts) ]_vars

\* C5 witness: the server closed the connection after a payload was sent and
\* the program has noticed.
C5_Witness ==
    /\ tool \in {"telemetry", "binary"}
    /\ connLost /\ Len(sent) >= 1 /\ connectAttempts = 1 /\ pc = "done"

\* The positions where a simulator is in a bounded wait.
WaitPcs == {"welcome", "metaack", "ack"}

\* The position reached when a bounded wait times out.
AfterWait ==
    CASE tool = "telemetry" /\ pc = "welcome" -> "loop"
      [] tool = "telemetry" /\ pc = "ack"     -> "count"
      [] tool = "binary" /\ pc = "welcome"    ->
             IF args.send_metadata_json THEN "meta" ELSE "loop"
      [] tool = "binary" /\ pc = "metaack"    -> "loop"
      [] tool = "binary" /\ pc = "ack"        -> "dec"
      [] OTHER                                -> "none"

\* C6: whatever a bounded wait yields (the timeout, a connected / ack / error
\* message, text that is not JSON), the program goes on exactly as after the
\* timeout: same next position, nothing sent or reported, no exit code set,
\* the telemetry counters untouched and the sender's counters as the timeout
\* leaves them.
C6_AcksAdvisory ==
    [][ (pc \in WaitPcs /\ lastRecv' \in RecvKinds)
        => /\ pc' = AfterWait
           /\ sent' = sent /\ exitCode' = exitCode /\ reported' = reported
           /\ connLost' = connLost
           /\ frame_id' = frame_id
           /\ image_files' = image_files
           /\ IF pc' = "loop" /\ tool = "binary"
                THEN /\ frame_count' = 0 /\ image_index' = 0
                     /\ updates_remaining' = InitialUpdates(args)
                ELSE /\ frame_count' = frame_count /\ image_index' = image_index
                     /\ updates_remaining' = updates_remaining ]_vars

\* C6 witness: a per-frame wait has just received an "error" message and the
\* loop is at the statement after the wait.
C6_Witness ==
    /\ lastRecv = "error"
    /\ \/ tool = "telemetry" /\ pc = "count"
       \/ tool = "binary" /\ pc = "dec"

\* The command line was rejected for an invalid numeric range or an invalid
\* combination of arguments (not for a missing input file or directory).
Rejected ==
    CASE tool = "telemetry" -> ~validate_args(args)
      [] tool = "binary"    -> ~BinArgsValid(args)
      [] tool = "resize"    ->
             \/ ~ResizeParseOk(args)
             \/ args.input_dir.exists /\ ~ResizeValidateArgs(args)
      [] tool = "extract"   -> args.video.exists /\ ~ExtractValidateArgs(args)

\* C7 (as claimed): a tool whose argument validation rejects the command line
\* exits with code 2.
C7_RejectedExitsTwo ==
    (pc = "done" /\ Rejected) => exitCode = 2

\* C8 (as claimed): the resizer, once it has discovered image files, exits
\* with 0 exactly when every one of them was resized successfully.
C8_ZeroIffAllResized ==
    (tool = "resize" /\ pc = "done" /\ resizer.files # <<>>)
    => (exitCode = 0 <=> resizer.success_count = Len(resizer.files))

\* C9 (as claimed): a simulator run that ends because the connection could
\* not be opened, or because the server closed it, exits with code 1.
C9_ConnectionFailureExitsOne ==
    (tool \in {"telemetry", "binary"} /\ args.updates >= 0
       /\ pc = "done" /\ ~interrupted
       /\ (ConnectFailed \/ connLost))
    => exitCode = 1

\* The numeric ranges the claim lists as invalid.
InvalidRange ==
    CASE tool = "telemetry" ->
             \/ args.interval_s <= 0 \/ args.updates < 0
             \/ args.radius_m <= 0 \/ args.num_drones < 1
             \/ args.speed_range_kt[1] <= 0
             \/ args.speed_range_kt[1] > args.speed_range_kt[2]
             \/ ~(0 <= args.miss_rate /\ args.miss_rate < 100)
             \/ ~(0 <= args.false_positive_rate /\ args.false_positive_rate < 100)
      [] tool = "binary" -> args.interval_s <= 0 \/ args.updates < 0
      [] OTHER -> FALSE

\* C10 (as claimed): a simulator given an invalid numeric range opens no
\* connection and sends nothing.
C10_InvalidRangeNoWork ==
    InvalidRange => (connectAttempts = 0 /\ conn = "none" /\ sent = <<>>)

\* The resizer has written an output for a run given only --width.
WidthOnlyWritten ==
    /\ tool = "resize" /\ resizer.last.new # <<>>
    /\ args.size = <<>> /\ args.height = <<>> /\ Truthy(args.width)

\* C11 (as claimed): an image of size (width, height) resized with only
\* --width W is written with height round(height * W / width).
C11_WidthOnlyHeightRounded ==
    WidthOnlyWritten
    => resizer.last.new[2]
         = RoundDiv(resizer.last.orig[2] * args.width[1], resizer.last.orig[1])

\* C12: every output written has exactly the requested dimensions: the
\* (W, H) of --size whatever the original's aspect ratio, and width W with
\* only --width W.
C12_ExactDimensions ==
    (tool = "resize" /\ resizer.last.new # <<>>)
    => /\ args.size # <<>> => resizer.last.new = args.size
       /\ WidthOnlyWritten => resizer.last.new[1] = args.width[1]

\* C12 witness: --size 2 3 was applied to an image whose aspect ratio is not
\* 2:3, and the run is over.
C12_Witness ==
    /\ tool = "resize" /\ pc = "done"
    /\ args.size = <<2, 3>> /\ resizer.last.new = <<2, 3>>
    /\ resizer.last.orig[1] * 3 # resizer.last.orig[2] * 2

\* The elements of a sequence are pairwise distinct.
NoDuplicates(q) == \A i, j \in 1..Len(q) : q[i] = q[j] => i = j

\* C13: the files attempted are the discovered files, each once, in sorted
\* order (so a failure never stops the loop: at the end all were attempted);
\* the success count is the number of files resized, never above the total.
C13_EveryFileAttemptedOnce ==
    tool = "resize" =>
        /\ NoDuplicates(resizer.attempted)
        /\ resizer.attempted = SubSeq(resizer.files, 1, resizer.index - 1)
        /\ (pc = "done" /\ resizer.files # <<>>
              => resizer.attempted = resizer.files)
        /\ resizer.success_count = Cardinality(resizer.resized)
        /\ resizer.success_count <= Len(resizer.files)
        /\ resizer.resized \subseteq
             { resizer.attempted[i] : i \in 1..Len(resizer.attempted) }

\* C13 witness: of two discovered files the first failed and the second was
\* resized; the run reports 1/2.
C13_Witness ==
    /\ tool = "resize" /\ pc = "done"
    /\ Len(resizer.files) = 2 /\ resizer.attempted = resizer.files
    /\ resizer.resized = {resizer.files[2]} /\ resizer.success_count = 1

\* extract_frames got as far as its loop: the arguments were accepted and the
\* video opened.
ExtractRan == tool = "extract" /\ ExtractValidateArgs(args) /\ args.video.opens

\* The step the claim gives: max(1, floor(I * F)) with --interval I, else 1.
ClaimedStep ==
    IF args.interval # <<>>
      THEN Max(1, (args.interval[1] * args.video.fps) \div TimeDen)
      ELSE 1

\* The first index at which the run stops for lack of frames: the end
\* boundary, or the first frame that does not decode.
StopIndex == Min(EndFrame(args), args.video.decodable)

\* The indices start_frame + k * step, k = 0, 1, 2, ..., below StopIndex.
SelectedCount ==
    IF StopIndex <= StartFrame(args) THEN 0
    ELSE ((StopIndex - 1 - StartFrame(args)) \div ClaimedStep) + 1
SelectedFrames ==
    [k \in 1..SelectedCount |-> StartFrame(args) + (k - 1) * ClaimedStep]

\* C14: the frames written are, in order, the frames start_frame + k * step
\* (k = 0, 1, 2, ...) that lie below the end boundary and decode, with
\* step = max(1, floor(I * F)), or 1 without --interval; a finished run has
\* written all of them (the first --max-frames of them when that is given).
C14_IntervalSelection ==
    ExtractRan =>
        /\ Len(extractor.written) <= SelectedCount
        /\ extractor.written = SubSeq(SelectedFrames, 1, Len(extractor.written))
        /\ pc = "done" =>
             Len(extractor.written) =
                IF Truthy(args.max_frames)
                  THEN Min(args.max_frames[1], SelectedCount)
                  ELSE SelectedCount

\* C14 witness: a run with a step of two frames has written frames 0 and 2.
C14_Witness ==
    /\ ExtractRan /\ pc = "done"
    /\ ClaimedStep = 2 /\ extractor.written = <<0, 2>>

\* The end boundary as the claim gives it: floor(end_time * fps) clamped to
\* the total frame count, the total frame count without --end-time.
ClaimedEnd ==
    IF args.end_time # <<>>
      THEN Max(0, Min((args.end_time[1] * args.video.fps) \div TimeDen,
                      args.video.total_frames))
      ELSE args.video.total_frames

\* The set of frame indices written so far.
WrittenSet == { extractor.written[i] : i \in 1..Len(extractor.written) }

\* C15 (as claimed): for a command line whose --end-time, if given, is above
\* --start-time, no frame of index >= floor(end_time * fps) (clamped to the
\* total frame count) is written, at most --max-frames M > 0 frames are
\* written, and the extraction loop terminates.
C15_StopsAtEndBoundary ==
    /\ []( (ExtractRan /\ (args.end_time = <<>> \/ args.end_time[1] > args.start_time))
           => /\ \A f \in WrittenSet : f < ClaimedEnd
              /\ (args.max_frames # <<>> /\ args.max_frames[1] > 0)
                   => Len(extractor.written) <= args.max_frames[1] )
    /\ ((ExtractRan /\ pc = "read") ~> (pc = "done"))

\* The run ended because cap.read() failed on a frame below the end boundary.
DecodeFailed ==
    /\ ExtractRan /\ pc = "done"
    /\ extractor.current_frame = args.video.decodable
    /\ args.video.decodable < EndFrame(args)

\* C16: no frame at or after the one that fails to decode is written, the
\* saved count is the number of frames written, and the exit code follows
\* from it; a run ended by a decode failure has written every selected frame
\* before the failing one.
C16_DecodeFailureTruncates ==
    ExtractRan =>
        /\ \A f \in WrittenSet : f < args.video.decodable
        /\ extractor.saved_count = Len(extractor.written)
        /\ pc = "done" =>
             exitCode = (IF Len(extractor.written) > 0 THEN 0 ELSE 1)
        /\ DecodeFailed =>
             \A f \in StartFrame(args)..(args.video.decodable - 1) :
                 (f - StartFrame(args)) % ClaimedStep = 0 => f \in WrittenSet

\* C16 witness: the third frame failed to decode after two frames were
\* written, of a video with more frames below the end boundary.
C16_Witness ==
    /\ DecodeFailed /\ Len(extractor.written) = 2
    /\ extractor.saved_count = 2 /\ exitCode = 0

\* init_frames_states has returned: the telemetry simulator is connected.
TracksCreated == tool = "telemetry" /\ conn # "none"

\* C17: once created there are exactly num-drones tracks, and no step adds or
\* removes a track or changes a track's identifier, mode, base speed or orbit
\* radius.
C17_TracksFixed ==
    /\ [](TracksCreated => Len(states) = args.num_drones)
    /\ [][ TracksCreated =>
             /\ Len(states') = Len(states)
             /\ \A i \in 1..Len(states) :
                  /\ states'[i].drone_id = states[i].drone_id
                  /\ states'[i].motion = states[i].motion
                  /\ states'[i].speed_base_mps = states[i].speed_base_mps
                  /\ states'[i].radius_m = states[i].radius_m ]_vars

\* C17 witness: after two counted ticks a circle track that has turned and a
\* straight track are the two tracks of the run.
C17_Witness ==
    /\ TracksCreated /\ frame_id >= 2 /\ Len(states) = 2
    /\ states[1].motion = "circle" /\ states[1].angle_rad # 0
    /\ states[2].motion = "straight"

\* C18: the angle of every circle track is in [0, 2 * math.pi), and a tick
\* replaces it by (angle + (speed / radius) * interval) modulo 2 * math.pi,
\* the speed being the base speed times a factor between 0.9 and 1.1.
C18_AngleModuloTurn ==
    /\ [](tool = "telemetry" =>
            \A i \in 1..Len(states) :
                states[i].motion = "circle" =>
                    (0 <= states[i].angle_rad /\ states[i].angle_rad < TwoPi))
    /\ [][ (tool = "telemetry" /\ states # <<>> /\ states' # states) =>
             \A i \in 1..Len(states) :
                states[i].motion = "circle" =>
                    \E factor \in {9, 10, 11} :
                        states'[i].angle_rad =
                            (states[i].angle_rad
                               + (states[i].speed_base_mps * factor
                                    * args.interval_s * AngleDen)
                                 \div states[i].radius_m) % TwoPi ]_vars

\* C18 witness: after a tick the angle of a circle track is below the least
\* angle one tick turns, so the tick took it past a full turn.
C18_Witness ==
    /\ tool = "telemetry" /\ Len(sent) >= 1 /\ Len(states) = 1
    /\ states[1].motion = "circle"
    /\ states[1].angle_rad < (9 * AngleDen) \div 13

\* C19 (as claimed): for the same center and radius, position_on_circle
\* returns the same position at an angle and at that angle plus 2 * math.pi.
C19_CirclePeriodic ==
    (probe # NoProbe /\ probe.at # <<>>) => probe.turned = probe.at

\* The binary-frame sender run with --updates 0, without --loop, on a
\* directory whose image files are all readable.
BinOnePass ==
    /\ tool = "binary" /\ BinArgsValid(args)
    /\ args.updates = 0 /\ ~args.loop
    /\ args.frames_dir.exists /\ args.frames_dir.unreadable = {}

\* The image files sent so far, in the order sent.
ImagesSent ==
    LET imgs == SelectSeq(sent, LAMBDA m : m.kind = "image")
    IN  [i \in 1..Len(imgs) |-> imgs[i].file]

\* The image files of the directory given to --frames-dir.
DirImages ==
    { args.frames_dir.listing[i] : i \in 1..Len(args.frames_dir.listing) } \ {0}

\* send_binary_images returned from its loop with the connection open and no
\* SIGINT delivered.
BinCleanReturn ==
    /\ tool = "binary" /\ pc = "done" /\ conn = "open"
    /\ ~interrupted /\ ~connLost /\ exitCode = 0

\* C20: in such a run the image files are sent in ascending file-name order,
\* none twice, one message per file; a run that returns with the connection
\* still open has sent every image file of the directory and counts as many
\* frames; and the send loop terminates.
C20_EachFileOnceInOrder ==
    /\ [](BinOnePass =>
            /\ \A i, j \in 1..Len(ImagesSent) :
                  i < j => ImagesSent[i] < ImagesSent[j]
            /\ \A i \in 1..Len(ImagesSent) : ImagesSent[i] \in DirImages
            /\ BinCleanReturn =>
                  /\ { ImagesSent[i] : i \in 1..Len(ImagesSent) } = DirImages
                  /\ frame_count = Cardinality(DirImages))
    /\ ((BinOnePass /\ pc = "loop") ~> (pc = "done"))

\* C20 witness: two image files that the directory lists in descending name
\* order were both sent and the run returned.
C20_Witness ==
    /\ BinOnePass /\ BinCleanReturn
    /\ Len(ImagesSent) = 2 /\ frame_count = 2
    /\ \E i, j \in 1..Len(args.frames_dir.listing) :
          i < j /\ args.frames_dir.listing[i] = 2 /\ args.frames_dir.listing[j] = 1

\* The number of metadata JSON messages sent so far.
MetadataSent == Len(SelectSeq(sent, LAMBDA m : m.kind = "metadata"))

\* Positions of send_binary_images after its handshake, in the send loop.
BinLoopPcs == {"loop", "sent", "ack", "dec", "sleep"}

\* C21: the binary-frame sender sends nothing before its wait for the
\* welcome message is over; without --send-metadata-json it never sends a
\* metadata message; with the flag it sends at most one, and once the send
\* loop has been entered or an image frame has gone out exactly one was
\* sent, as the first message of the run.
C21_HandshakeFirst ==
    tool = "binary" =>
        /\ pc \in {"start", "connect", "welcome"} => sent = <<>>
        /\ ~args.send_metadata_json => MetadataSent = 0
        /\ MetadataSent <= 1
        /\ (args.send_metadata_json /\ (pc \in BinLoopPcs \/ Len(ImagesSent) > 0)) =>
              /\ MetadataSent = 1
              /\ sent[1].kind = "metadata"

\* C21 witness: with --send-metadata-json the metadata message and then an
\* image frame were sent.
C21_Witness ==
    /\ tool = "binary" /\ args.send_metadata_json
    /\ Len(sent) >= 2
    /\ sent[1].kind = "metadata" /\ sent[2].kind = "image"

\* Positions inside the send loop of a simulator (frames_loop's while of
\* lines 337-443, send_binary_images' while of lines 147-198).
SendLoopPcs ==
    IF tool = "telemetry" THEN {"loop", "ack", "count", "sleep"}
    ELSE IF tool = "binary" THEN BinLoopPcs
    ELSE {}

\* A step in which SIGINT is delivered while the simulator is in its send loop.
SigintInSendLoop == ~interrupted /\ interrupted' /\ pc \in SendLoopPcs

\* C22 (as claimed): a keyboard interruption during the send loop of either
\* simulator ends the run normally: nothing more is sent, the summary with
\* the frame count is printed and the exit code is 0.
C22_InterruptIsNormalExit ==
    [][ SigintInSendLoop =>
          /\ pc' = "done" /\ sent' = sent
          /\ reported' # NoReport
          /\ exitCode' = 0 ]_vars

\* A run of the binary-frame sender with accepted arguments and --updates N > 0.
BinUpdatesRun == tool = "binary" /\ BinArgsValid(args) /\ args.updates > 0

\* The readable image files of the directory, in ascending name order.
ReadableFiles ==
    SelectSeq(get_image_files(args.frames_dir),
              LAMBDA f : f \notin args.frames_dir.unreadable)

\* The images sent so far are the readable files taken cyclically from the
\* first one.
SentCyclically ==
    \A k \in 1..Len(ImagesSent) :
        /\ ReadableFiles # <<>>
        /\ ImagesSent[k] = ReadableFiles[((k - 1) % Len(ReadableFiles)) + 1]

\* C23 (as claimed): with --updates N > 0 the binary-frame sender never sends
\* more than N frames; with --loop the frames are the image files taken
\* cyclically, a run that returns without interruption or connection loss has
\* sent exactly N, and on a non-empty directory the send loop terminates.
C23_LoopSendsExactlyN ==
    /\ [](BinUpdatesRun => Len(ImagesSent) <= args.updates)
    /\ [](BinUpdatesRun /\ args.loop =>
            /\ SentCyclically
            /\ BinCleanReturn =>
                  Len(ImagesSent) = args.updates /\ frame_count = args.updates)
    /\ ((BinUpdatesRun /\ args.loop /\ pc = "loop") ~> (pc = "done"))

\* The send loop is at its head and the file it is about to open cannot be
\* read (the file is image_files[image_index], after the wrap of --loop).
AtUnreadableFile ==
    /\ tool = "binary" /\ pc = "loop"
    /\ (updates_remaining = NoneVal \/ updates_remaining > 0)
    /\ ~(image_index >= Len(image_files) /\ ~args.loop)
    /\ image_files[(IF image_index >= Len(image_files) THEN 0 ELSE image_index) + 1]
          \in args.frames_dir.unreadable

\* C24: an image file that cannot be read is skipped.  The step taken at
\* such a file sends nothing and leaves the frame count and the
\* remaining-updates budget alone, and when the loop goes on (the step is
\* the program's, not the server closing the connection) it goes on at the
\* next file; no unreadable file is ever sent; and a run over the whole
\* directory (--updates 0, no --loop) that returns with the connection open
\* has sent every readable file.
C24_UnreadableSkipped ==
    /\ [][ AtUnreadableFile =>
             /\ sent' = sent
             /\ frame_count' = frame_count
             /\ updates_remaining' = updates_remaining
             /\ (pc' = "loop" /\ conn' = conn) =>
                  image_index' =
                     (IF image_index >= Len(image_files) THEN 0 ELSE image_index) + 1
         ]_vars
    /\ [](tool = "binary" =>
            \A k \in 1..Len(ImagesSent) :
                ImagesSent[k] \notin args.frames_dir.unreadable)
    /\ []((tool = "binary" /\ BinArgsValid(args) /\ args.updates = 0
             /\ ~args.loop /\ BinCleanReturn) =>
            { ImagesSent[k] : k \in 1..Len(ImagesSent) }
               = DirImages \ args.frames_dir.unreadable)

\* C24 witness: the first file of the directory could not be read and the
\* second one was sent.
C24_Witness ==
    /\ tool = "binary" /\ BinCleanReturn
    /\ args.frames_dir.unreadable = {1}
    /\ ImagesSent = <<2>> /\ frame_count = 1

\* The command lines of the frame extractor the claim lists as invalid.
ExtractInvalid ==
    /\ tool = "extract"
    /\ \/ (args.interval # <<>> /\ args.interval[1] <= 0)
       \/ (args.max_frames # <<>> /\ args.max_frames[1] <= 0)
       \/ args.start_time < 0
       \/ (args.end_time # <<>> /\ args.end_time[1] <= args.start_time)

\* C25 (as claimed): the frame extractor given --interval <= 0,
\* --max-frames <= 0, --start-time < 0 or --end-time <= --start-time never
\* gets past validate_args: the video is not opened, no frame is written and
\* the run ends with exit code 1.
C25_InvalidRejectedBeforeWork ==
    ExtractInvalid =>
        /\ pc \in {"start", "done"}
        /\ extractor.written = <<>>
        /\ pc = "done" => exitCode = 1

\* A step that is one pass of frames_loop's while body (not the server
\* closing the connection, not a SIGINT).
TickStep ==
    /\ tool = "telemetry" /\ pc = "loop"
    /\ (updates_remaining = NoneVal \/ updates_remaining > 0)
    /\ conn' = conn /\ interrupted' = interrupted

\* Track i has been advanced once, by one of the speed factors 0.9 .. 1.1:
\* an orbiting track in its phase angle only, a linear track in its stored
\* position only.
AdvancedOnce(i) ==
    LET st  == states[i]
        new == states'[i]
    IN  \E f \in {9, 10, 11} :
          IF st.motion = "circle"
            THEN /\ new = [st EXCEPT !.angle_rad =
                             (st.angle_rad
                                + (st.speed_base_mps * f * args.interval_s * AngleDen)
                                     \div st.radius_m) % TwoPi]
                 /\ new.angle_rad # st.angle_rad
            ELSE /\ new.lat = st.lat
                      + st.speed_base_mps * f * args.interval_s * Cos(st.bearing_rad)
                 /\ new.angle_rad = st.angle_rad
                 /\ <<new.lat, new.lon>> # <<st.lat, st.lon>>
                 /\ [new EXCEPT !.lat = st.lat, !.lon = st.lon] = st

\* The state of a track of the given motion after n ticks, when every
\* random.uniform draw returns its lower end.
RECURSIVE TrackAfter(_, _, _)
TrackAfter(i, motion, n) ==
    IF n = 0
      THEN MakeState(i, CHOOSE d \in TrackDraws(args) : d.motion = motion)
      ELSE AdvanceTrack(TrackAfter(i, motion, n - 1),
                        CHOOSE f \in NoiseDraws : TRUE, args.interval_s)

\* Every track object of every frame sent carries the position its track has
\* after as many ticks as frames were built, however many of the earlier
\* frames left the track out.
ReportsIgnoreMisses ==
    \A k \in 1..Len(sent) : \A j \in 1..Len(sent[k].objects) :
        LET o == sent[k].objects[j]
        IN  o.obj_id[1] = "sim" =>
              <<o.lat, o.lng>> =
                 ReportedPosition(TrackAfter(o.obj_id[2],
                                             states[o.obj_id[2]].motion, k))

\* C26: each pass of the loop advances every track exactly once, whether or
\* not the track is dropped from the frame (an orbiting track its phase
\* angle, a linear track its stored position, nothing else), and an object
\* put into the frame carries the position just computed; so, with the
\* random.uniform draws held fixed, the position a frame reports does not
\* depend on the misses of earlier frames.
C26_MissOnlyOmits ==
    /\ [][ TickStep =>
             /\ Len(states') = Len(states)
             /\ \A i \in 1..Len(states) : AdvancedOnce(i)
             /\ sent' # sent =>
                  \A j \in 1..Len(sent'[Len(sent')].objects) :
                      LET o == sent'[Len(sent')].objects[j]
                      IN  o.obj_id[1] = "sim" =>
                            <<o.lat, o.lng>> = ReportedPosition(states'[o.obj_id[2]])
         ]_vars
    /\ []((tool = "telemetry" /\ uniformDraws = "lower") => ReportsIgnoreMisses)

\* C26 witness: a track left out of the first frame is reported in the
\* second one.
C26_Witness ==
    /\ tool = "telemetry" /\ uniformDraws = "lower"
    /\ args.num_drones = 1 /\ args.false_positive_rate = 0
    /\ Len(sent) = 2
    /\ sent[1].objects = <<>>
    /\ Len(sent[2].objects) = 1

\* The number a string of decimal digits denotes.
RECURSIVE DecimalValue(_)
DecimalValue(str) ==
    IF str = <<>> THEN 0
    ELSE 10 * DecimalValue(SubSeq(str, 1, Len(str) - 1))
         + (CHOOSE d \in 0..9 :
               <<"0", "1", "2", "3", "4", "5", "6", "7", "8", "9">>[d + 1]
                  = str[Len(str)])

\* A string is the decimal string of a number: digits only, no leading zero.
IsDecimalString(str) ==
    /\ Len(str) >= 1
    /\ \A i \in 1..Len(str) :
          str[i] \in {"0", "1", "2", "3", "4", "5", "6", "7", "8", "9"}
    /\ Len(str) > 1 => str[1] # "0"

\* C27: the k-th frame a telemetry run sends (counting from 0) carries as
\* fram_id the decimal string of k, so the identifiers are pairwise different
\* and increase by one; and each frame is given, when it is sent, the number
\* of frames sent before it.
C27_FramIdGapFree ==
    /\ [](tool = "telemetry" =>
            /\ \A k \in 1..Len(sent) :
                  /\ IsDecimalString(sent[k].fram_id)
                  /\ DecimalValue(sent[k].fram_id) = k - 1
            /\ \A k, l \in 1..Len(sent) :
                  k # l => sent[k].fram_id # sent[l].fram_id)
    /\ [][ (tool = "telemetry" /\ sent' # sent) =>
              /\ Len(sent') = Len(sent) + 1
              /\ DecimalValue(sent'[Len(sent')].fram_id) = Len(sent) ]_vars

\* C27 witness: two frames were sent, with fram_id "0" and "1".
C27_Witness ==
    /\ tool = "telemetry" /\ Len(sent) = 2
    /\ sent[1].fram_id = <<"0">> /\ sent[2].fram_id = <<"1">>

====
